---- MODULE Spec2Model ----
(***************************************************************************)
(* A model of pyoath (src/pyoath.py): the HOTP (RFC 4226) and TOTP         *)
(* (RFC 6238) derivation pipeline and the command-line front end.          *)
(*                                                                         *)
(* Python values are modelled as follows.                                  *)
(*   int    its magnitude: a sequence of limbs 0..255, most significant    *)
(*          first, without leading zeros (<<>> is 0), since Python ints    *)
(*          are unbounded and TLC's are not; [neg, mag] where the sign     *)
(*          matters.                                                       *)
(*   bytes  a sequence of numbers 0..255.                                  *)
(*   str    a TLA+ string (OTP codes, output) or, where the characters     *)
(*          are processed one by one, a sequence of code points.           *)
(*   a call that may raise returns [ok |-> TRUE, val |-> v] or             *)
(*          [ok |-> FALSE, err |-> "<exception>"].                         *)
(***************************************************************************)
EXTENDS Integers, Sequences, FiniteSets, TLC

VARIABLES
    now,        \* the clock: what int(time.time()) returns, a magnitude
    py3,        \* whether the interpreter is Python 3 (else Python 2)
    call,       \* the last library call made: its name and arguments
    snum,       \* what _DT returned in that call (or the exception it raised)
    ret,        \* what the call returned (or the exception it raised)
    hotp,       \* the HOTP calls the last TOTP call made
    first,      \* the first library call made and what it returned
    ncalls,     \* the number of library calls made
    hmacs,      \* the _HMAC calls the last HOTP or TOTP call made
    pc,         \* where main is
    options,    \* what _parse_args returned
    fs,         \* the file system at secret_path
    secret,     \* main's variable secret
    last_otp,   \* main's variable last_otp
    this_otp,   \* main's variable this_otp (otp outside the loop)
    counter,    \* main's variable counter
    stdout,     \* the strings written to sys.stdout, in order
    stderr,     \* what was written to sys.stderr, in order
    flushed,    \* how many of the writes to sys.stdout have been flushed
    status,     \* what main returned, or the exception that left it
    opened,     \* whether main opened the file at secret_path
    interrupt   \* where main was when KeyboardInterrupt was raised

libvars == <<call, snum, ret, hotp, first, ncalls, hmacs>>

mainvars ==
    <<pc, options, fs, secret, last_otp, this_otp, counter, stdout, stderr,
      flushed, status, opened, interrupt>>

vars == <<now, py3, libvars, mainvars>>

----------------------------------------------------------------------------
(* Bounds of the model.                                                    *)

\* the largest digit count asked for
MaxDigit == 11

\* the largest counter handed to HOTP directly
MaxCounter == 1

\* the most library calls made in one run
MaxCalls == 3

----------------------------------------------------------------------------
(* Python values.                                                          *)

Ok(v) == [ok |-> TRUE, val |-> v]

Raise(e) == [ok |-> FALSE, err |-> e]

Max(a, b) == IF a >= b THEN a ELSE b

Min(a, b) == IF a <= b THEN a ELSE b

MinOf(S) == CHOOSE x \in S : \A y \in S : x <= y

\* a magnitude without its leading zero limbs
Norm(b) ==
    LET nz == {i \in 1..Len(b) : b[i] # 0}
    IN  IF nz = {} THEN <<>> ELSE SubSeq(b, MinOf(nz), Len(b))

\* the magnitude of a number 0 <= n < 2^31
Mag(n) ==
    Norm(<<n \div 16777216, (n \div 65536) % 256, (n \div 256) % 256, n % 256>>)

RECURSIVE MagNat(_)
\* the number a magnitude below 2^31 stands for
MagNat(b) ==
    IF b = <<>> THEN 0 ELSE 256 * MagNat(SubSeq(b, 1, Len(b) - 1)) + b[Len(b)]

PyInt(n) == [neg |-> n < 0, mag |-> Mag(IF n < 0 THEN -n ELSE n)]

RECURSIVE BitAnd(_, _)
\* x & y for numbers 0 <= x, y < 2^31
BitAnd(x, y) ==
    IF x = 0 \/ y = 0
    THEN 0
    ELSE (x % 2) * (y % 2) + 2 * BitAnd(x \div 2, y \div 2)

\* a & b for magnitudes
MagAnd(a, b) ==
    LET n == Min(Len(a), Len(b))
    IN  Norm([k \in 1..n |-> BitAnd(a[Len(a) - n + k], b[Len(b) - n + k])])

RECURSIVE DivRec(_, _, _)
\* long division of the first n limbs of a by 0 < m < 2^23
DivRec(a, m, n) ==
    IF n = 0
    THEN [q |-> <<>>, r |-> 0]
    ELSE LET p == DivRec(a, m, n - 1)
             x == 256 * p.r + a[n]
         IN  [q |-> Append(p.q, x \div m), r |-> x % m]

\* a // m and a % m for a magnitude a and 0 < m < 2^23
MagDivMod(a, m) ==
    LET d == DivRec(a, m, Len(a)) IN [q |-> Norm(d.q), r |-> d.r]

RECURSIVE AddRec(_, _, _)
\* the last n limbs of a + c, led by the carry out of them
AddRec(a, c, n) ==
    IF n = 0
    THEN <<c>>
    ELSE LET x == a[Len(a)] + c
         IN  Append(AddRec(SubSeq(a, 1, Len(a) - 1), x \div 256, n - 1), x % 256)

\* a + d for a magnitude a and 0 <= d < 2^23
MagAdd(a, d) == Norm(AddRec(a, d, Len(a)))

\* a < b for magnitudes
MagLess(a, b) ==
    \/ Len(a) < Len(b)
    \/ /\ Len(a) = Len(b)
       /\ \E i \in 1..Len(a) :
            /\ a[i] < b[i]
            /\ \A j \in 1..(i - 1) : a[j] = b[j]

RECURSIVE Dec(_)
\* the decimal digits of a magnitude, most significant first (none for 0)
Dec(a) ==
    IF a = <<>>
    THEN <<>>
    ELSE LET d == MagDivMod(a, 10) IN Append(Dec(d.q), d.r)

\* the decimal digits of a % 10**e, for e >= 0: the last e digits of a,
\* without their leading zeros
ModPow10(a, e) ==
    LET d == Dec(a) IN Norm(SubSeq(d, Max(Len(d) - e, 0) + 1, Len(d)))

DigitChar == <<"0", "1", "2", "3", "4", "5", "6", "7", "8", "9">>

RECURSIVE StrRec(_)
StrRec(d) == IF d = <<>> THEN "" ELSE DigitChar[Head(d) + 1] \o StrRec(Tail(d))

\* str(n) for the decimal digits d of n >= 0
Str(d) == IF d = <<>> THEN "0" ELSE StrRec(d)

RECURSIVE zfill(_, _)
\* s.zfill(width), s without a sign
zfill(s, width) == IF Len(s) >= width THEN s ELSE zfill("0" \o s, width)

\* S[lo:hi] for 0 <= lo, hi: Python clamps a slice to the sequence
Slice(S, lo, hi) == SubSeq(S, lo + 1, Min(hi, Len(S)))

----------------------------------------------------------------------------
(* The truncation pipeline.                                                *)

\* _StToNum reading the bytes there are when fewer than 4 are left
_StToNum_short(S) == Ok(Norm(S))

\* _StToNum reading the 4 bytes in little-endian order
_StToNum_le(S) ==
    IF Len(S) = 4
    THEN Ok(Norm([i \in 1..4 |-> S[5 - i]]))
    ELSE Raise("struct.error")

\* struct.unpack('>L', S)[0]: S must be exactly 4 bytes
_StToNum(S) == IF Len(S) = 4 THEN Ok(Norm(S)) ELSE Raise("struct.error")

\* _DT taking the low-order 5 bits of the last byte as the offset
_DT_offset5(String) ==
    LET OffsetBits == Slice(String, Max(Len(String) - 1, 0), Len(String))
    IN  IF Len(OffsetBits) # 1
        THEN Raise("TypeError")
        ELSE LET Offset == BitAnd(OffsetBits[1], 31)
                 P      == Slice(String, Offset, Offset + 4)
                 Bits   == _StToNum(P)
             IN  IF ~Bits.ok
                 THEN Bits
                 ELSE Ok(MagAnd(Bits.val, Mag(2147483647)))

\* _DT masking the top bit of every byte of the window
_DT_maskall(String) ==
    LET OffsetBits == Slice(String, Max(Len(String) - 1, 0), Len(String))
    IN  IF Len(OffsetBits) # 1
        THEN Raise("TypeError")
        ELSE LET Offset == BitAnd(OffsetBits[1], 15)
                 P      == Slice(String, Offset, Offset + 4)
                 Bits   == _StToNum(P)
             IN  IF ~Bits.ok
                 THEN Bits
                 ELSE Ok(MagAnd(Bits.val, Mag(2139062143)))

\* _DT without the mask of line 60
_DT_nomask(String) ==
    LET OffsetBits == Slice(String, Max(Len(String) - 1, 0), Len(String))
    IN  IF Len(OffsetBits) # 1
        THEN Raise("TypeError")
        ELSE LET Offset == BitAnd(OffsetBits[1], 15)
                 P      == Slice(String, Offset, Offset + 4)
             IN  _StToNum(P)

_DT(String) ==
    LET OffsetBits == Slice(String, Max(Len(String) - 1, 0), Len(String))
    IN  IF Len(OffsetBits) # 1
        THEN Raise("TypeError")             \* ord() of an empty string
        ELSE LET Offset == BitAnd(OffsetBits[1], 15)
                 P      == Slice(String, Offset, Offset + 4)
                 Bits   == _StToNum(P)
             IN  IF ~Bits.ok
                 THEN Bits
                 ELSE Ok(MagAnd(Bits.val, Mag(2147483647)))

\* _Truncate without the padding of line 119
_Truncate_nopad(HS, Digit) ==
    LET Snum == _DT(HS)
    IN  IF ~Snum.ok
        THEN Snum
        ELSE Ok(Str(ModPow10(Snum.val, Digit)))

_Truncate(HS, Digit) ==
    LET Snum == _DT(HS)
    IN  IF ~Snum.ok
        THEN Snum
        ELSE LET D == ModPow10(Snum.val, Digit)
             IN  Ok(zfill(Str(D), Digit))

----------------------------------------------------------------------------
(* Python's true division of ints (Python 3's "/") followed by int().      *)

BitWeight == <<128, 64, 32, 16, 8, 4, 2, 1>>

\* the bits of a sequence of limbs, most significant first
LimbBits(a) ==
    [k \in 1..(8 * Len(a)) |->
        (a[((k - 1) \div 8) + 1] \div BitWeight[((k - 1) % 8) + 1]) % 2]

\* the limbs of a sequence of bits
BitLimbs(b) ==
    LET pad == (8 - (Len(b) % 8)) % 8
        p   == [k \in 1..pad |-> 0] \o b
        bit(l, j) == p[8 * (l - 1) + j] * BitWeight[j]
    IN  Norm([l \in 1..(Len(p) \div 8) |->
                bit(l, 1) + bit(l, 2) + bit(l, 3) + bit(l, 4)
                    + bit(l, 5) + bit(l, 6) + bit(l, 7) + bit(l, 8)])

\* b + 1 for a sequence of bits b
BitsInc(b) ==
    LET zeros == {k \in 1..Len(b) : b[k] = 0}
    IN  IF zeros = {}
        THEN <<1>> \o [k \in 1..Len(b) |-> 0]
        ELSE LET z == CHOOSE k \in zeros : \A j \in zeros : j <= k
             IN  [k \in 1..Len(b) |-> IF k < z THEN b[k] ELSE IF k = z THEN 1 ELSE 0]

\* the bits of a double's significand
MantissaBits == 53

\* int(t / X) under true division, for a magnitude t and 0 < X < 2^23: the
\* quotient is rounded to the nearest double (ties to even), then truncated
TrueDivInt(t, X) ==
    LET FracLimbs == 10
        F    == 8 * FracLimbs
        d    == DivRec(t \o [k \in 1..FracLimbs |-> 0], X, Len(t) + FracLimbs)
        B    == LimbBits(d.q)
        ones == {k \in 1..Len(B) : B[k] = 1}
    IN  IF ones = {}
        THEN <<>>
        ELSE LET lead   == MinOf(ones)
                 n      == Len(B) - lead + 1
                 M      == SubSeq(B, lead, lead + MantissaBits - 1)
                 round  == B[lead + MantissaBits]
                 sticky == \/ d.r # 0
                           \/ \E k \in (lead + MantissaBits + 1)..Len(B) : B[k] = 1
                 up     == round = 1 /\ (sticky \/ M[MantissaBits] = 1)
                 R      == IF up THEN BitsInc(M) ELSE M
                 e      == n - MantissaBits - F
             IN  IF e >= 0
                 THEN BitLimbs(R \o [k \in 1..e |-> 0])
                 ELSE BitLimbs(SubSeq(R, 1, Len(R) + e))

----------------------------------------------------------------------------
(* The keyed-hash engine.  hmac.new(K, C, Mode).digest() is tabulated for  *)
(* the secrets, counters and hash modes the model uses; the SHA-1 rows of  *)
(* K20 for the counters 0..9 are the digests of RFC 4226 that              *)
(* test_hmac_sha1 lists.                                                   *)

\* b'12345678901234567890'
K20 ==
    <<49, 50, 51, 52, 53, 54, 55, 56, 57, 48, 49, 50, 51, 52, 53, 54, 55, 56, 57, 48>>

\* b'GEZDGNBVGY3TQOJQGEZDGNBVGY3TQOJQ', the base32 encoding of K20
KB32 ==
    <<71, 69, 90, 68, 71, 78, 66, 86, 71, 89, 51, 84, 81, 79, 74, 81,
      71, 69, 90, 68, 71, 78, 66, 86, 71, 89, 51, 84, 81, 79, 74, 81>>

\* b' gezdgnbvgy3tqojqgezdgnbvgy3tqojq\n'
KB32ws ==
    <<32, 103, 101, 122, 100, 103, 110, 98, 118, 103, 121, 51, 116, 113, 111, 106, 113,
      103, 101, 122, 100, 103, 110, 98, 118, 103, 121, 51, 116, 113, 111, 106, 113, 10>>

\* b'123456789012345678901'
K21 == K20 \o <<49>>

\* b'GEZDGNBVGY3TQOJQGEZDGNBVGY3TQOJQGE======', the base32 encoding of K21
KPad == KB32 \o <<71, 69, 61, 61, 61, 61, 61, 61>>

\* b'\xff', which is no UTF-8
KFF == <<255>>

Modes == {"sha1", "sha256", "sha512", "md5"}

\* rows <<K, C, Mode, digest>>
HMACTable ==
    {
      <<K20, <<0, 0, 0, 0, 0, 0, 0, 0>>, "sha1",
        <<204, 147, 207, 24, 80, 141, 148, 147, 76, 100, 182, 93, 139, 167, 102, 127, 183, 205, 228, 176>>>>,
      <<K20, <<0, 0, 0, 0, 0, 0, 0, 1>>, "sha1",
        <<117, 164, 138, 25, 212, 203, 225, 0, 100, 78, 138, 193, 57, 126, 234, 116, 122, 45, 51, 171>>>>,
      <<K20, <<0, 0, 0, 0, 0, 0, 0, 2>>, "sha1",
        <<11, 172, 183, 250, 8, 47, 239, 48, 120, 34, 17, 147, 139, 193, 197, 231, 4, 22, 255, 68>>>>,
      <<K20, <<0, 0, 0, 0, 0, 0, 0, 3>>, "sha1",
        <<102, 194, 130, 39, 208, 58, 45, 85, 41, 38, 47, 240, 22, 161, 230, 239, 118, 85, 126, 206>>>>,
      <<K20, <<0, 0, 0, 0, 0, 0, 0, 4>>, "sha1",
        <<169, 4, 201, 0, 166, 75, 53, 144, 152, 116, 179, 62, 97, 197, 147, 138, 142, 21, 237, 28>>>>,
      <<K20, <<0, 3, 255, 255, 255, 255, 255, 255>>, "sha1",
        <<26, 99, 93, 159, 250, 162, 104, 184, 195, 214, 196, 112, 127, 211, 115, 218, 238, 18, 68, 135>>>>,
      <<K20, <<0, 4, 0, 0, 0, 0, 0, 0>>, "sha1",
        <<238, 28, 131, 232, 175, 231, 107, 248, 63, 213, 55, 49, 148, 59, 134, 245, 224, 175, 118, 107>>>>,
      <<K20, <<0, 17, 36, 146, 73, 36, 146, 72>>, "sha1",
        <<83, 5, 162, 204, 180, 43, 147, 87, 131, 113, 68, 250, 6, 39, 86, 167, 88, 243, 88, 25>>>>,
      <<K20, <<0, 17, 36, 146, 73, 36, 146, 73>>, "sha1",
        <<202, 145, 221, 111, 4, 211, 125, 69, 191, 125, 33, 87, 113, 232, 121, 11, 193, 182, 46, 130>>>>,
      <<K20, <<255, 255, 255, 255, 255, 255, 255, 255>>, "sha1",
        <<246, 22, 253, 102, 183, 240, 98, 144, 104, 107, 99, 32, 206, 179, 77, 101, 177, 254, 147, 234>>>>,
      <<K20, <<0, 0, 0, 0, 0, 0, 0, 0>>, "sha256",
        <<74, 185, 141, 251, 179, 51, 163, 59, 21, 123, 172, 23, 92, 117, 52, 7, 107, 129, 132, 203, 220, 89, 67, 121, 156, 148, 23, 61, 148, 103, 188, 249>>>>,
      <<K20, <<0, 0, 0, 0, 0, 0, 0, 1>>, "sha256",
        <<236, 157, 79, 104, 123, 78, 254, 106, 204, 82, 16, 6, 114, 102, 11, 132, 192, 231, 33, 11, 160, 56, 33, 65, 248, 236, 185, 7, 150, 202, 185, 18>>>>,
      <<K20, <<0, 0, 0, 0, 0, 0, 0, 2>>, "sha256",
        <<236, 200, 19, 25, 195, 86, 104, 204, 78, 233, 70, 232, 193, 230, 27, 121, 196, 214, 102, 176, 216, 250, 169, 113, 59, 37, 90, 92, 83, 169, 26, 153>>>>,
      <<K20, <<0, 0, 0, 0, 0, 0, 0, 3>>, "sha256",
        <<5, 112, 84, 39, 201, 46, 208, 97, 188, 222, 238, 71, 27, 167, 232, 178, 254, 180, 125, 31, 194, 214, 247, 163, 232, 229, 171, 112, 126, 60, 96, 3>>>>,
      <<K20, <<0, 0, 0, 0, 0, 0, 0, 4>>, "sha256",
        <<233, 111, 192, 123, 152, 191, 237, 161, 82, 162, 144, 9, 112, 167, 224, 226, 221, 108, 22, 181, 245, 70, 211, 173, 25, 56, 58, 168, 69, 82, 62, 94>>>>,
      <<K20, <<0, 3, 255, 255, 255, 255, 255, 255>>, "sha256",
        <<143, 69, 187, 219, 132, 151, 44, 39, 243, 27, 59, 172, 83, 146, 105, 79, 211, 76, 53, 119, 30, 67, 41, 57, 202, 68, 33, 123, 150, 128, 169, 138>>>>,
      <<K20, <<0, 4, 0, 0, 0, 0, 0, 0>>, "sha256",
        <<80, 14, 18, 127, 87, 102, 55, 160, 246, 87, 86, 214, 154, 139, 120, 4, 26, 65, 131, 183, 44, 164, 111, 171, 24, 133, 204, 181, 244, 6, 104, 1>>>>,
      <<K20, <<0, 17, 36, 146, 73, 36, 146, 72>>, "sha256",
        <<190, 220, 119, 12, 249, 227, 39, 163, 163, 66, 4, 201, 181, 169, 176, 92, 213, 204, 74, 72, 211, 2, 220, 16, 52, 143, 112, 188, 210, 160, 88, 179>>>>,
      <<K20, <<0, 17, 36, 146, 73, 36, 146, 73>>, "sha256",
        <<204, 174, 128, 245, 144, 136, 157, 48, 196, 84, 8, 215, 235, 193, 141, 24, 66, 173, 164, 73, 252, 234, 128, 152, 173, 198, 57, 82, 190, 97, 146, 84>>>>,
      <<K20, <<255, 255, 255, 255, 255, 255, 255, 255>>, "sha256",
        <<133, 10, 151, 18, 104, 253, 124, 180, 249, 1, 168, 12, 77, 10, 37, 58, 33, 63, 250, 143, 106, 42, 45, 227, 143, 71, 212, 9, 222, 148, 71, 137>>>>,
      <<K20, <<0, 0, 0, 0, 0, 0, 0, 0>>, "sha512",
        <<197, 164, 2, 55, 237, 107, 184, 173, 39, 248, 56, 245, 8, 53, 150, 53, 230, 62, 4, 190, 210, 41, 216, 71, 209, 99, 38, 145, 182, 74, 142, 219, 56, 229, 152, 129, 126, 60, 158, 96, 128, 177, 112, 156, 110, 148, 57, 11, 186, 179, 18, 11, 204, 250, 155, 213, 36, 8, 42, 239, 152, 210, 74, 193>>>>,
      <<K20, <<0, 0, 0, 0, 0, 0, 0, 1>>, "sha512",
        <<104, 160, 217, 252, 127, 107, 200, 227, 6, 10, 76, 167, 153, 150, 3, 182, 195, 93, 74, 247, 178, 158, 24, 197, 79, 79, 145, 140, 36, 64, 180, 123, 109, 142, 43, 43, 70, 223, 37, 241, 36, 48, 104, 169, 38, 45, 129, 200, 135, 158, 7, 213, 73, 145, 165, 236, 120, 61, 183, 56, 75, 11, 145, 13>>>>,
      <<K20, <<0, 0, 0, 0, 0, 0, 0, 2>>, "sha512",
        <<220, 247, 168, 9, 201, 182, 159, 157, 153, 206, 56, 196, 147, 169, 255, 94, 158, 138, 140, 90, 36, 98, 59, 179, 131, 133, 42, 199, 84, 162, 197, 2, 56, 49, 107, 222, 152, 226, 4, 88, 63, 250, 30, 240, 53, 217, 121, 38, 20, 230, 181, 59, 88, 121, 140, 187, 84, 249, 50, 164, 125, 32, 76, 66>>>>,
      <<K20, <<0, 0, 0, 0, 0, 0, 0, 3>>, "sha512",
        <<122, 124, 72, 207, 37, 19, 162, 51, 43, 38, 52, 172, 110, 49, 210, 244, 154, 200, 253, 48, 18, 227, 106, 247, 207, 211, 84, 46, 193, 216, 7, 194, 236, 247, 124, 138, 255, 41, 3, 67, 60, 176, 40, 1, 243, 165, 191, 194, 119, 8, 245, 95, 89, 81, 68, 37, 0, 136, 3, 77, 38, 158, 31, 198>>>>,
      <<K20, <<0, 0, 0, 0, 0, 0, 0, 4>>, "sha512",
        <<158, 241, 49, 16, 73, 108, 225, 46, 222, 74, 115, 102, 204, 157, 129, 244, 77, 232, 201, 144, 219, 126, 29, 71, 182, 247, 71, 101, 182, 157, 198, 60, 205, 93, 134, 113, 152, 24, 179, 238, 231, 142, 104, 99, 242, 113, 81, 41, 134, 29, 91, 244, 5, 138, 92, 145, 225, 220, 89, 114, 61, 147, 108, 152>>>>,
      <<K20, <<0, 3, 255, 255, 255, 255, 255, 255>>, "sha512",
        <<239, 76, 158, 98, 52, 58, 119, 78, 92, 177, 243, 124, 40, 29, 224, 48, 194, 2, 23, 165, 87, 197, 245, 228, 132, 14, 165, 192, 196, 255, 12, 65, 67, 59, 82, 24, 213, 165, 13, 23, 223, 26, 42, 205, 56, 90, 68, 215, 132, 238, 51, 150, 10, 29, 46, 201, 104, 172, 67, 173, 81, 134, 220, 91>>>>,
      <<K20, <<0, 4, 0, 0, 0, 0, 0, 0>>, "sha512",
        <<145, 27, 130, 166, 81, 114, 74, 104, 206, 118, 222, 86, 173, 85, 129, 88, 223, 37, 76, 207, 185, 123, 227, 132, 63, 90, 196, 175, 168, 251, 142, 252, 178, 90, 141, 26, 204, 131, 227, 170, 183, 249, 69, 5, 181, 119, 65, 194, 168, 20, 125, 125, 219, 115, 182, 28, 219, 55, 195, 19, 12, 110, 136, 0>>>>,
      <<K20, <<0, 17, 36, 146, 73, 36, 146, 72>>, "sha512",
        <<205, 112, 41, 203, 14, 75, 177, 57, 145, 240, 138, 196, 201, 12, 154, 159, 254, 29, 180, 128, 100, 165, 185, 124, 26, 125, 62, 121, 240, 126, 241, 80, 88, 2, 225, 250, 61, 184, 153, 47, 216, 219, 203, 53, 91, 72, 17, 40, 195, 84, 108, 172, 112, 69, 131, 31, 147, 246, 140, 157, 154, 67, 15, 12>>>>,
      <<K20, <<0, 17, 36, 146, 73, 36, 146, 73>>, "sha512",
        <<141, 65, 178, 240, 232, 157, 80, 25, 106, 78, 122, 77, 100, 131, 250, 44, 59, 99, 246, 2, 197, 35, 95, 220, 210, 172, 241, 109, 6, 48, 167, 39, 241, 38, 94, 214, 183, 209, 67, 83, 21, 76, 148, 144, 102, 5, 105, 143, 229, 194, 126, 110, 209, 117, 62, 155, 212, 151, 70, 89, 152, 104, 107, 221>>>>,
      <<K20, <<255, 255, 255, 255, 255, 255, 255, 255>>, "sha512",
        <<184, 166, 92, 195, 249, 210, 194, 62, 86, 11, 0, 102, 40, 53, 99, 9, 153, 247, 1, 40, 191, 111, 202, 25, 46, 234, 90, 22, 22, 19, 220, 69, 233, 17, 71, 19, 127, 63, 105, 254, 142, 144, 234, 237, 71, 61, 172, 180, 48, 8, 62, 119, 152, 87, 29, 123, 202, 145, 217, 47, 178, 130, 66, 214>>>>,
      <<K20, <<0, 0, 0, 0, 0, 0, 0, 0>>, "md5",
        <<28, 9, 19, 129, 62, 230, 108, 28, 136, 30, 182, 43, 181, 190, 104, 239>>>>,
      <<K20, <<0, 0, 0, 0, 0, 0, 0, 1>>, "md5",
        <<94, 22, 124, 173, 180, 0, 242, 91, 56, 72, 57, 220, 95, 39, 76, 112>>>>,
      <<K20, <<0, 0, 0, 0, 0, 0, 0, 2>>, "md5",
        <<127, 156, 86, 31, 148, 13, 176, 8, 131, 126, 167, 16, 90, 232, 3, 14>>>>,
      <<K20, <<0, 0, 0, 0, 0, 0, 0, 3>>, "md5",
        <<83, 182, 105, 67, 26, 168, 171, 184, 119, 42, 94, 174, 120, 22, 185, 105>>>>,
      <<K20, <<0, 0, 0, 0, 0, 0, 0, 4>>, "md5",
        <<243, 200, 176, 81, 0, 149, 240, 107, 194, 179, 214, 12, 178, 249, 113, 157>>>>,
      <<K20, <<0, 3, 255, 255, 255, 255, 255, 255>>, "md5",
        <<166, 200, 166, 3, 136, 249, 77, 122, 186, 190, 165, 209, 169, 220, 112, 48>>>>,
      <<K20, <<0, 4, 0, 0, 0, 0, 0, 0>>, "md5",
        <<124, 141, 199, 74, 105, 246, 76, 199, 11, 199, 16, 126, 95, 24, 49, 231>>>>,
      <<K20, <<0, 17, 36, 146, 73, 36, 146, 72>>, "md5",
        <<162, 209, 242, 3, 14, 173, 235, 60, 156, 51, 204, 46, 189, 81, 25, 254>>>>,
      <<K20, <<0, 17, 36, 146, 73, 36, 146, 73>>, "md5",
        <<18, 198, 164, 247, 90, 202, 63, 32, 178, 85, 43, 227, 180, 138, 231, 153>>>>,
      <<K20, <<255, 255, 255, 255, 255, 255, 255, 255>>, "md5",
        <<131, 17, 38, 28, 45, 1, 13, 72, 171, 50, 100, 118, 81, 4, 164, 20>>>>,
      <<KB32, <<0, 0, 0, 0, 0, 0, 0, 0>>, "sha1",
        <<219, 170, 26, 33, 183, 201, 145, 48, 60, 239, 65, 101, 151, 83, 131, 37, 80, 101, 170, 248>>>>,
      <<KB32, <<0, 0, 0, 0, 0, 0, 0, 1>>, "sha1",
        <<230, 235, 35, 90, 253, 126, 126, 76, 244, 56, 132, 109, 150, 39, 61, 249, 82, 209, 140, 13>>>>,
      <<KB32, <<0, 0, 0, 0, 0, 0, 0, 2>>, "sha1",
        <<37, 159, 12, 192, 227, 36, 251, 85, 63, 221, 242, 83, 167, 36, 99, 132, 177, 41, 18, 116>>>>,
      <<KB32, <<0, 0, 0, 0, 0, 0, 0, 3>>, "sha1",
        <<128, 251, 43, 89, 110, 215, 216, 75, 17, 66, 167, 69, 151, 115, 52, 141, 187, 91, 213, 254>>>>,
      <<KB32, <<0, 0, 0, 0, 0, 0, 0, 4>>, "sha1",
        <<47, 128, 110, 244, 232, 176, 194, 87, 110, 27, 90, 11, 101, 190, 167, 93, 242, 130, 211, 219>>>>,
      <<KB32, <<0, 3, 255, 255, 255, 255, 255, 255>>, "sha1",
        <<214, 230, 133, 149, 7, 247, 223, 5, 73, 178, 129, 251, 52, 18, 246, 64, 232, 191, 68, 85>>>>,
      <<KB32, <<0, 4, 0, 0, 0, 0, 0, 0>>, "sha1",
        <<254, 229, 241, 132, 155, 56, 220, 35, 167, 41, 151, 170, 108, 20, 217, 97, 55, 160, 216, 146>>>>,
      <<KB32, <<0, 17, 36, 146, 73, 36, 146, 72>>, "sha1",
        <<200, 71, 89, 45, 112, 236, 6, 157, 190, 110, 64, 102, 130, 65, 30, 61, 230, 232, 175, 208>>>>,
      <<KB32, <<0, 17, 36, 146, 73, 36, 146, 73>>, "sha1",
        <<16, 57, 212, 218, 136, 175, 103, 91, 93, 184, 232, 132, 53, 76, 78, 63, 145, 58, 188, 167>>>>,
      <<KB32, <<255, 255, 255, 255, 255, 255, 255, 255>>, "sha1",
        <<96, 17, 183, 159, 25, 198, 7, 114, 26, 86, 139, 32, 94, 3, 38, 113, 100, 184, 153, 209>>>>,
      <<KB32, <<0, 0, 0, 0, 0, 0, 0, 0>>, "sha256",
        <<118, 228, 143, 34, 178, 73, 192, 111, 43, 130, 32, 186, 194, 204, 163, 73, 103, 198, 160, 100, 94, 73, 155, 147, 85, 231, 0, 82, 14, 195, 103, 39>>>>,
      <<KB32, <<0, 0, 0, 0, 0, 0, 0, 1>>, "sha256",
        <<109, 137, 35, 153, 4, 128, 158, 155, 127, 236, 5, 232, 78, 227, 204, 49, 6, 172, 190, 77, 139, 101, 117, 189, 120, 89, 21, 35, 63, 3, 220, 68>>>>,
      <<KB32, <<0, 0, 0, 0, 0, 0, 0, 2>>, "sha256",
        <<191, 112, 45, 223, 236, 243, 213, 47, 159, 159, 228, 214, 88, 23, 173, 207, 168, 112, 215, 41, 86, 81, 40, 126, 167, 171, 209, 170, 79, 120, 51, 119>>>>,
      <<KB32, <<0, 0, 0, 0, 0, 0, 0, 3>>, "sha256",
        <<27, 131, 100, 40, 86, 159, 43, 140, 122, 191, 12, 170, 235, 176, 76, 26, 129, 22, 160, 74, 194, 170, 78, 82, 20, 250, 74, 190, 95, 195, 34, 133>>>>,
      <<KB32, <<0, 0, 0, 0, 0, 0, 0, 4>>, "sha256",
        <<173, 159, 202, 21, 203, 28, 192, 154, 248, 95, 205, 177, 233, 57, 102, 253, 99, 255, 33, 167, 230, 88, 252, 185, 106, 154, 137, 169, 111, 210, 149, 135>>>>,
      <<KB32, <<0, 3, 255, 255, 255, 255, 255, 255>>, "sha256",
        <<116, 205, 10, 183, 227, 125, 204, 48, 81, 45, 157, 79, 168, 90, 92, 35, 159, 216, 85, 218, 26, 13, 134, 115, 170, 10, 7, 250, 113, 14, 153, 196>>>>,
      <<KB32, <<0, 4, 0, 0, 0, 0, 0, 0>>, "sha256",
        <<177, 40, 117, 8, 157, 110, 226, 184, 157, 103, 205, 215, 86, 244, 243, 59, 229, 121, 224, 250, 48, 174, 96, 64, 172, 106, 33, 33, 56, 31, 115, 2>>>>,
      <<KB32, <<0, 17, 36, 146, 73, 36, 146, 72>>, "sha256",
        <<204, 70, 46, 31, 127, 245, 226, 240, 110, 184, 209, 109, 216, 34, 61, 42, 131, 201, 49, 240, 169, 99, 78, 88, 58, 97, 159, 82, 69, 84, 226, 168>>>>,
      <<KB32, <<0, 17, 36, 146, 73, 36, 146, 73>>, "sha256",
        <<155, 197, 19, 15, 86, 218, 7, 94, 216, 134, 252, 237, 154, 157, 19, 118, 52, 243, 55, 149, 142, 42, 225, 213, 153, 35, 175, 210, 22, 151, 57, 18>>>>,
      <<KB32, <<255, 255, 255, 255, 255, 255, 255, 255>>, "sha256",
        <<149, 191, 185, 240, 57, 192, 223, 206, 143, 211, 246, 209, 49, 228, 236, 85, 139, 64, 137, 150, 96, 122, 194, 138, 228, 96, 237, 162, 35, 224, 252, 60>>>>,
      <<KB32, <<0, 0, 0, 0, 0, 0, 0, 0>>, "sha512",
        <<231, 13, 26, 168, 53, 211, 196, 164, 244, 126, 3, 116, 153, 8, 121, 17, 12, 146, 77, 41, 25, 135, 180, 0, 163, 74, 120, 70, 158, 205, 150, 60, 227, 121, 206, 57, 77, 201, 107, 139, 110, 113, 25, 84, 46, 254, 52, 156, 198, 65, 221, 204, 242, 11, 181, 134, 181, 194, 74, 39, 120, 156, 232, 201>>>>,
      <<KB32, <<0, 0, 0, 0, 0, 0, 0, 1>>, "sha512",
        <<43, 143, 155, 192, 69, 187, 107, 71, 44, 106, 214, 49, 157, 144, 157, 203, 64, 79, 42, 204, 197, 224, 92, 205, 141, 0, 160, 167, 6, 219, 36, 109, 104, 10, 35, 215, 70, 76, 193, 212, 29, 166, 111, 172, 184, 29, 93, 83, 97, 190, 247, 1, 200, 12, 20, 250, 222, 240, 27, 236, 96, 234, 217, 140>>>>,
      <<KB32, <<0, 0, 0, 0, 0, 0, 0, 2>>, "sha512",
        <<128, 69, 148, 100, 51, 113, 219, 73, 107, 70, 185, 238, 147, 48, 5, 29, 165, 136, 181, 210, 68, 140, 177, 73, 199, 188, 92, 167, 71, 64, 154, 106, 203, 41, 177, 47, 180, 125, 131, 253, 63, 35, 5, 56, 139, 88, 134, 215, 199, 231, 84, 126, 180, 118, 15, 159, 4, 71, 194, 142, 146, 43, 178, 183>>>>,
      <<KB32, <<0, 0, 0, 0, 0, 0, 0, 3>>, "sha512",
        <<81, 237, 109, 4, 92, 45, 208, 202, 8, 168, 139, 243, 83, 191, 229, 223, 7, 44, 235, 131, 7, 213, 193, 85, 45, 42, 122, 217, 177, 201, 41, 200, 24, 130, 37, 175, 185, 92, 85, 59, 145, 50, 49, 84, 74, 133, 96, 42, 153, 128, 62, 34, 124, 37, 66, 7, 219, 63, 47, 97, 216, 247, 221, 55>>>>,
      <<KB32, <<0, 0, 0, 0, 0, 0, 0, 4>>, "sha512",
        <<49, 56, 175, 152, 17, 212, 234, 42, 226, 253, 67, 9, 134, 42, 98, 198, 94, 114, 76, 227, 139, 126, 104, 254, 216, 189, 59, 186, 40, 138, 118, 146, 107, 122, 168, 6, 229, 192, 122, 233, 192, 128, 169, 60, 58, 225, 88, 158, 144, 180, 92, 110, 204, 180, 77, 220, 131, 213, 234, 172, 133, 29, 42, 31>>>>,
      <<KB32, <<0, 3, 255, 255, 255, 255, 255, 255>>, "sha512",
        <<252, 1, 190, 117, 249, 166, 201, 194, 163, 189, 50, 106, 30, 119, 25, 98, 144, 163, 230, 131, 142, 19, 179, 15, 114, 189, 212, 253, 71, 77, 175, 151, 254, 105, 228, 147, 180, 83, 192, 40, 232, 87, 165, 7, 254, 43, 250, 110, 72, 170, 36, 200, 5, 158, 95, 5, 176, 130, 238, 47, 224, 160, 146, 188>>>>,
      <<KB32, <<0, 4, 0, 0, 0, 0, 0, 0>>, "sha512",
        <<157, 113, 19, 215, 8, 199, 110, 79, 91, 36, 160, 103, 112, 126, 81, 13, 71, 170, 36, 217, 86, 54, 81, 20, 131, 115, 234, 193, 102, 155, 42, 211, 66, 91, 188, 110, 180, 143, 74, 233, 156, 245, 218, 195, 57, 28, 99, 100, 124, 186, 179, 120, 121, 14, 202, 131, 10, 4, 39, 245, 12, 0, 217, 149>>>>,
      <<KB32, <<0, 17, 36, 146, 73, 36, 146, 72>>, "sha512",
        <<170, 0, 1, 190, 242, 156, 237, 225, 242, 83, 211, 48, 64, 200, 17, 164, 232, 191, 234, 140, 208, 248, 200, 106, 112, 201, 0, 9, 116, 208, 103, 55, 187, 190, 102, 248, 189, 75, 201, 85, 93, 111, 149, 0, 52, 24, 99, 160, 103, 212, 30, 9, 205, 138, 180, 197, 82, 56, 89, 7, 47, 235, 43, 140>>>>,
      <<KB32, <<0, 17, 36, 146, 73, 36, 146, 73>>, "sha512",
        <<181, 222, 63, 241, 239, 199, 122, 230, 126, 67, 31, 141, 90, 49, 158, 57, 57, 236, 44, 40, 65, 131, 67, 50, 219, 107, 215, 73, 121, 238, 222, 75, 58, 198, 197, 194, 92, 247, 6, 112, 64, 142, 161, 167, 98, 237, 66, 68, 225, 179, 124, 128, 202, 118, 212, 103, 28, 49, 127, 41, 60, 113, 225, 255>>>>,
      <<KB32, <<255, 255, 255, 255, 255, 255, 255, 255>>, "sha512",
        <<94, 176, 201, 252, 25, 171, 119, 222, 126, 79, 54, 73, 75, 207, 255, 228, 250, 51, 82, 225, 160, 49, 32, 38, 187, 137, 37, 196, 254, 175, 174, 55, 88, 68, 70, 238, 60, 183, 68, 124, 232, 89, 70, 63, 220, 170, 240, 74, 7, 245, 71, 217, 64, 42, 138, 216, 122, 227, 51, 209, 120, 198, 213, 230>>>>,
      <<KB32, <<0, 0, 0, 0, 0, 0, 0, 0>>, "md5",
        <<217, 235, 220, 172, 57, 203, 73, 65, 238, 36, 223, 121, 241, 21, 33, 21>>>>,
      <<KB32, <<0, 0, 0, 0, 0, 0, 0, 1>>, "md5",
        <<153, 45, 73, 120, 128, 148, 177, 128, 210, 19, 57, 135, 157, 103, 113, 103>>>>,
      <<KB32, <<0, 0, 0, 0, 0, 0, 0, 2>>, "md5",
        <<205, 208, 226, 219, 251, 151, 45, 223, 102, 244, 195, 65, 185, 239, 125, 180>>>>,
      <<KB32, <<0, 0, 0, 0, 0, 0, 0, 3>>, "md5",
        <<71, 14, 90, 162, 156, 178, 227, 1, 150, 208, 135, 147, 28, 180, 250, 13>>>>,
      <<KB32, <<0, 0, 0, 0, 0, 0, 0, 4>>, "md5",
        <<40, 254, 154, 223, 20, 17, 79, 72, 44, 99, 89, 96, 197, 105, 88, 102>>>>,
      <<KB32, <<0, 3, 255, 255, 255, 255, 255, 255>>, "md5",
        <<67, 6, 29, 178, 173, 109, 224, 52, 9, 59, 20, 242, 227, 64, 238, 28>>>>,
      <<KB32, <<0, 4, 0, 0, 0, 0, 0, 0>>, "md5",
        <<135, 120, 226, 249, 180, 93, 254, 158, 105, 129, 173, 90, 244, 14, 101, 173>>>>,
      <<KB32, <<0, 17, 36, 146, 73, 36, 146, 72>>, "md5",
        <<85, 14, 24, 123, 74, 219, 231, 2, 66, 83, 111, 140, 5, 240, 102, 223>>>>,
      <<KB32, <<0, 17, 36, 146, 73, 36, 146, 73>>, "md5",
        <<100, 223, 20, 0, 135, 52, 230, 16, 142, 131, 161, 105, 161, 17, 103, 51>>>>,
      <<KB32, <<255, 255, 255, 255, 255, 255, 255, 255>>, "md5",
        <<169, 119, 245, 133, 79, 99, 215, 192, 123, 200, 92, 67, 146, 218, 183, 37>>>>,
      <<KB32ws, <<0, 0, 0, 0, 0, 0, 0, 0>>, "sha1",
        <<117, 23, 64, 130, 138, 135, 64, 14, 94, 35, 79, 3, 233, 187, 146, 161, 240, 176, 33, 185>>>>,
      <<KB32ws, <<0, 0, 0, 0, 0, 0, 0, 1>>, "sha1",
        <<105, 122, 94, 125, 52, 108, 73, 202, 228, 7, 187, 25, 193, 204, 216, 126, 183, 217, 137, 177>>>>,
      <<KB32ws, <<0, 0, 0, 0, 0, 0, 0, 2>>, "sha1",
        <<148, 112, 82, 176, 209, 197, 106, 163, 58, 133, 251, 81, 124, 107, 239, 13, 255, 182, 113, 151>>>>,
      <<KB32ws, <<0, 0, 0, 0, 0, 0, 0, 3>>, "sha1",
        <<233, 154, 47, 120, 38, 45, 96, 106, 157, 16, 208, 197, 188, 178, 29, 200, 33, 90, 152, 89>>>>,
      <<KB32ws, <<0, 3, 255, 255, 255, 255, 255, 255>>, "sha1",
        <<43, 145, 204, 194, 0, 81, 92, 20, 114, 210, 13, 189, 147, 139, 127, 112, 223, 241, 133, 167>>>>,
      <<KB32ws, <<0, 4, 0, 0, 0, 0, 0, 0>>, "sha1",
        <<222, 33, 71, 73, 86, 98, 155, 168, 82, 8, 132, 70, 102, 146, 91, 248, 82, 11, 102, 49>>>>,
      <<KB32ws, <<0, 17, 36, 146, 73, 36, 146, 72>>, "sha1",
        <<65, 184, 225, 174, 115, 218, 72, 83, 146, 128, 221, 57, 79, 169, 197, 119, 170, 159, 26, 192>>>>,
      <<KB32ws, <<0, 17, 36, 146, 73, 36, 146, 73>>, "sha1",
        <<90, 219, 248, 24, 239, 235, 251, 14, 235, 148, 16, 51, 136, 18, 33, 196, 213, 98, 209, 39>>>>,
      <<K20, <<0, 0, 0, 0, 0, 0, 0, 5>>, "sha1",
        <<163, 126, 120, 61, 123, 114, 51, 192, 131, 212, 246, 41, 38, 199, 162, 95, 35, 141, 3, 22>>>>,
      <<K20, <<0, 0, 0, 0, 0, 0, 0, 6>>, "sha1",
        <<188, 156, 210, 133, 97, 4, 44, 131, 242, 25, 50, 77, 60, 96, 114, 86, 192, 50, 114, 174>>>>,
      <<K20, <<0, 0, 0, 0, 0, 0, 0, 7>>, "sha1",
        <<164, 251, 150, 12, 11, 192, 110, 30, 171, 184, 4, 229, 179, 151, 205, 196, 180, 85, 150, 250>>>>,
      <<K20, <<0, 0, 0, 0, 0, 0, 0, 8>>, "sha1",
        <<27, 60, 137, 246, 94, 108, 158, 136, 48, 18, 5, 40, 35, 68, 63, 4, 139, 67, 50, 219>>>>,
      <<K20, <<0, 0, 0, 0, 0, 0, 0, 9>>, "sha1",
        <<22, 55, 64, 152, 9, 166, 121, 220, 105, 130, 7, 49, 12, 140, 127, 192, 114, 144, 217, 229>>>>,
      <<K20, <<0, 0, 0, 0, 2, 53, 35, 236>>, "sha1",
        <<39, 140, 2, 229, 54, 16, 248, 76, 64, 189, 145, 53, 172, 212, 16, 16, 18, 65, 10, 20>>>>,
      <<K20, <<0, 0, 0, 0, 2, 53, 35, 237>>, "sha1",
        <<176, 9, 43, 33, 208, 72, 175, 32, 157, 160, 161, 221, 212, 152, 173, 232, 167, 148, 135, 237>>>>,
      <<K20, <<0, 0, 0, 0, 2, 53, 35, 238>>, "sha1",
        <<28, 48, 92, 150, 148, 133, 24, 7, 48, 11, 194, 137, 103, 119, 142, 211, 219, 19, 90, 116>>>>,
      <<KB32, <<0, 0, 0, 0, 2, 53, 35, 236>>, "sha1",
        <<114, 231, 231, 204, 215, 222, 62, 37, 194, 214, 207, 204, 75, 193, 208, 103, 134, 13, 87, 109>>>>,
      <<KB32, <<0, 0, 0, 0, 2, 53, 35, 237>>, "sha1",
        <<121, 65, 169, 126, 5, 191, 224, 66, 243, 254, 129, 214, 233, 30, 183, 83, 29, 118, 121, 37>>>>,
      <<KB32, <<0, 0, 0, 0, 2, 53, 35, 238>>, "sha1",
        <<69, 178, 66, 84, 13, 230, 52, 82, 246, 30, 9, 97, 138, 138, 174, 10, 84, 188, 1, 222>>>>,
      <<KB32ws, <<0, 0, 0, 0, 2, 53, 35, 236>>, "sha1",
        <<21, 57, 184, 72, 72, 6, 27, 63, 121, 151, 181, 70, 87, 214, 141, 35, 168, 193, 32, 33>>>>,
      <<KB32ws, <<0, 0, 0, 0, 2, 53, 35, 237>>, "sha1",
        <<176, 109, 241, 193, 30, 226, 218, 25, 202, 119, 131, 82, 44, 48, 43, 21, 97, 125, 172, 73>>>>,
      <<KB32ws, <<0, 0, 0, 0, 2, 53, 35, 238>>, "sha1",
        <<214, 247, 8, 77, 104, 160, 35, 1, 252, 189, 162, 94, 220, 140, 170, 247, 108, 55, 3, 57>>>>,
      <<K21, <<0, 0, 0, 0, 2, 53, 35, 236>>, "sha1",
        <<144, 124, 106, 68, 190, 108, 205, 41, 173, 168, 227, 55, 160, 153, 3, 244, 201, 12, 228, 22>>>>,
      <<K21, <<0, 0, 0, 0, 2, 53, 35, 237>>, "sha1",
        <<9, 21, 238, 23, 106, 134, 121, 163, 177, 141, 234, 161, 38, 222, 26, 205, 128, 149, 207, 85>>>>,
      <<K21, <<0, 0, 0, 0, 2, 53, 35, 238>>, "sha1",
        <<121, 190, 23, 126, 100, 206, 131, 21, 164, 171, 7, 195, 27, 224, 173, 171, 91, 239, 148, 179>>>>,
      <<KPad, <<0, 0, 0, 0, 2, 53, 35, 236>>, "sha1",
        <<190, 112, 208, 116, 0, 79, 208, 137, 213, 245, 185, 64, 164, 208, 181, 174, 61, 103, 8, 251>>>>,
      <<KPad, <<0, 0, 0, 0, 2, 53, 35, 237>>, "sha1",
        <<170, 148, 136, 231, 132, 79, 22, 122, 139, 55, 149, 127, 199, 127, 111, 237, 248, 163, 254, 221>>>>,
      <<KPad, <<0, 0, 0, 0, 2, 53, 35, 238>>, "sha1",
        <<116, 74, 70, 75, 109, 229, 22, 41, 105, 71, 11, 17, 168, 148, 227, 66, 25, 68, 166, 142>>>>,
      <<KFF, <<0, 0, 0, 0, 2, 53, 35, 236>>, "sha1",
        <<27, 209, 88, 102, 89, 17, 216, 201, 121, 55, 38, 4, 54, 253, 221, 222, 32, 19, 23, 187>>>>,
      <<KFF, <<0, 0, 0, 0, 2, 53, 35, 237>>, "sha1",
        <<227, 238, 116, 66, 13, 125, 110, 36, 90, 139, 224, 166, 11, 147, 241, 120, 89, 112, 190, 205>>>>,
      <<KFF, <<0, 0, 0, 0, 2, 53, 35, 238>>, "sha1",
        <<144, 185, 203, 24, 178, 221, 152, 134, 219, 147, 165, 227, 1, 229, 135, 246, 229, 185, 242, 151>>>>,
      <<K20, <<0, 0, 0, 0, 2, 53, 201, 60>>, "sha1",
        <<91, 19, 230, 66, 149, 132, 159, 37, 156, 22, 78, 185, 163, 179, 167, 226, 249, 215, 47, 46>>>>,
      <<K20, <<0, 0, 0, 0, 2, 53, 201, 61>>, "sha1",
        <<124, 192, 219, 44, 91, 126, 3, 135, 29, 87, 52, 115, 44, 181, 235, 183, 213, 47, 180, 182>>>>,
      <<K20, <<0, 0, 0, 0, 2, 53, 201, 62>>, "sha1",
        <<3, 95, 76, 236, 248, 2, 114, 125, 99, 209, 246, 213, 59, 196, 10, 69, 188, 228, 98, 196>>>>,
      <<KB32, <<0, 0, 0, 0, 2, 53, 201, 60>>, "sha1",
        <<177, 199, 200, 49, 54, 169, 104, 168, 112, 201, 125, 133, 41, 235, 110, 137, 237, 161, 249, 164>>>>,
      <<KB32, <<0, 0, 0, 0, 2, 53, 201, 61>>, "sha1",
        <<53, 29, 227, 156, 230, 176, 70, 93, 69, 164, 250, 219, 106, 69, 87, 169, 212, 85, 26, 8>>>>,
      <<KB32, <<0, 0, 0, 0, 2, 53, 201, 62>>, "sha1",
        <<9, 10, 18, 174, 25, 206, 188, 160, 20, 107, 79, 194, 189, 247, 237, 202, 112, 180, 197, 58>>>>,
      <<KB32ws, <<0, 0, 0, 0, 2, 53, 201, 60>>, "sha1",
        <<202, 238, 82, 112, 127, 253, 102, 234, 27, 203, 58, 188, 161, 151, 22, 180, 114, 193, 33, 223>>>>,
      <<KB32ws, <<0, 0, 0, 0, 2, 53, 201, 61>>, "sha1",
        <<195, 240, 19, 171, 235, 253, 228, 91, 137, 206, 155, 141, 103, 226, 13, 193, 130, 2, 97, 158>>>>,
      <<KB32ws, <<0, 0, 0, 0, 2, 53, 201, 62>>, "sha1",
        <<219, 215, 135, 149, 132, 146, 228, 65, 70, 63, 20, 24, 57, 162, 32, 14, 83, 162, 239, 17>>>>,
      <<K21, <<0, 0, 0, 0, 2, 53, 201, 60>>, "sha1",
        <<41, 201, 37, 151, 77, 248, 202, 165, 105, 192, 138, 33, 145, 16, 208, 117, 187, 117, 81, 37>>>>,
      <<K21, <<0, 0, 0, 0, 2, 53, 201, 61>>, "sha1",
        <<164, 232, 11, 198, 80, 242, 2, 34, 6, 15, 50, 192, 182, 111, 32, 61, 28, 185, 156, 198>>>>,
      <<K21, <<0, 0, 0, 0, 2, 53, 201, 62>>, "sha1",
        <<48, 41, 63, 14, 84, 115, 150, 216, 73, 108, 34, 226, 139, 97, 51, 183, 250, 86, 174, 58>>>>,
      <<KPad, <<0, 0, 0, 0, 2, 53, 201, 60>>, "sha1",
        <<117, 123, 247, 73, 196, 104, 110, 39, 31, 244, 61, 9, 238, 41, 192, 234, 137, 255, 51, 123>>>>,
      <<KPad, <<0, 0, 0, 0, 2, 53, 201, 61>>, "sha1",
        <<254, 182, 129, 215, 117, 47, 153, 46, 179, 128, 87, 187, 231, 41, 32, 123, 45, 202, 22, 109>>>>,
      <<KPad, <<0, 0, 0, 0, 2, 53, 201, 62>>, "sha1",
        <<105, 88, 245, 230, 165, 250, 238, 49, 12, 11, 28, 97, 65, 174, 200, 20, 95, 145, 83, 185>>>>,
      <<KFF, <<0, 0, 0, 0, 2, 53, 201, 60>>, "sha1",
        <<245, 27, 245, 116, 27, 39, 152, 229, 248, 159, 153, 10, 158, 160, 6, 36, 191, 232, 6, 8>>>>,
      <<KFF, <<0, 0, 0, 0, 2, 53, 201, 61>>, "sha1",
        <<209, 72, 229, 237, 203, 24, 160, 122, 239, 145, 116, 74, 69, 40, 241, 230, 146, 89, 76, 113>>>>,
      <<KFF, <<0, 0, 0, 0, 2, 53, 201, 62>>, "sha1",
        <<44, 233, 102, 245, 57, 214, 221, 41, 145, 179, 24, 150, 230, 125, 159, 177, 222, 90, 25, 20>>>>
    }

_HMAC(K, C, Mode) ==
    (CHOOSE r \in HMACTable : r[1] = K /\ r[2] = C /\ r[3] = Mode)[4]

----------------------------------------------------------------------------
(* HOTP and TOTP.                                                          *)

\* struct.pack that wraps: the low-order 8 bytes of the counter, its sign
\* dropped
pack_Q_wrap(C) ==
    LET low == SubSeq(C.mag, Max(Len(C.mag) - 7, 1), Len(C.mag))
    IN  Ok([k \in 1..(8 - Len(low)) |-> 0] \o low)

\* struct.pack('>Q', C): C must be in 0 .. 2^64 - 1
pack_Q(C) ==
    IF (C.neg /\ C.mag # <<>>) \/ Len(C.mag) > 8
    THEN Raise("struct.error")
    ELSE Ok([k \in 1..(8 - Len(C.mag)) |-> 0] \o C.mag)

\* HOTP with a counter of its own, which moves on after the first call
HOTP_stateful(K, C, Digit, Mode) ==
    LET moved  == IF ncalls > 0 /\ C = PyInt(0) THEN PyInt(1) ELSE C
        packed == pack_Q(moved)
    IN  IF ~packed.ok
        THEN packed
        ELSE _Truncate(_HMAC(K, packed.val, Mode), Digit)

\* the _HMAC calls HOTP(K, C, Digit, Mode) makes: none when the counter
\* cannot be packed
HMACCalls(K, C, Mode) ==
    LET packed == pack_Q(C)
    IN  IF ~packed.ok
        THEN <<>>
        ELSE <<[K |-> K, C |-> packed.val, Mode |-> Mode]>>

HOTP(K, C, Digit, Mode) ==
    LET packed == pack_Q(C)
    IN  IF ~packed.ok
        THEN packed
        ELSE LET C_bytestr == Slice(packed.val, Max(Len(packed.val) - 8, 0),
                                    Len(packed.val))
                 HS        == _HMAC(K, C_bytestr, Mode)
             IN  _Truncate(HS, Digit)

\* the HOTP call TOTP makes, and what TOTP returns
TOTP(K, X, Digit, Mode) ==
    LET unix_time == now
        unix_step == IF py3
                     THEN TrueDivInt(unix_time, X)
                     ELSE MagDivMod(unix_time, X).q
        C         == [neg |-> FALSE, mag |-> unix_step]
    IN  [hotp |-> <<[K |-> K, C |-> C, Digit |-> Digit, Mode |-> Mode]>>,
         ret  |-> HOTP(K, C, Digit, Mode)]

----------------------------------------------------------------------------
(* What the specifications share.                                          *)

NoCall == [op |-> "none"]

NoResult == [ok |-> FALSE, err |-> "none"]

NoFirst == [call |-> NoCall, ret |-> NoResult, others |-> 0]

\* the record of a library call: the first call of a run is remembered, with
\* the number of calls with other arguments made after it
Record(c, r, h) ==
    /\ call' = c
    /\ ret' = r
    /\ hotp' = h
    /\ first' = IF ncalls = 0
                THEN [call |-> c, ret |-> r, others |-> 0]
                ELSE [first EXCEPT !.others = @ + (IF c = first.call THEN 0 ELSE 1)]
    /\ ncalls' = ncalls + 1
    /\ hmacs' = IF c.op = "HOTP" THEN HMACCalls(c.K, c.C, c.Mode)
                ELSE IF h = <<>> THEN <<>>
                ELSE HMACCalls(h[1].K, h[1].C, h[1].Mode)

\* None, and a value that is not None
None == <<>>

Some(x) == <<x>>

\* main is not running: the library is called directly
NoMain ==
    /\ pc = "lib"
    /\ options = [secret |-> None, google |-> FALSE, loop |-> FALSE]
    /\ fs = [isfile |-> FALSE]
    /\ secret = None
    /\ last_otp = None
    /\ this_otp = None
    /\ counter = 0
    /\ stdout = <<>>
    /\ stderr = <<>>
    /\ flushed = 0
    /\ status = NoResult
    /\ opened = FALSE
    /\ interrupt = "none"

----------------------------------------------------------------------------
(* SpecDT: _DT and _Truncate applied to digests of every supported size.   *)

\* the HMAC-SHA-1 digests of RFC 4226 for the counters 0..9
RFC_HS ==
    << <<204, 147, 207, 24, 80, 141, 148, 147, 76, 100, 182, 93, 139, 167, 102, 127, 183, 205, 228, 176>>,
       <<117, 164, 138, 25, 212, 203, 225, 0, 100, 78, 138, 193, 57, 126, 234, 116, 122, 45, 51, 171>>,
       <<11, 172, 183, 250, 8, 47, 239, 48, 120, 34, 17, 147, 139, 193, 197, 231, 4, 22, 255, 68>>,
       <<102, 194, 130, 39, 208, 58, 45, 85, 41, 38, 47, 240, 22, 161, 230, 239, 118, 85, 126, 206>>,
       <<169, 4, 201, 0, 166, 75, 53, 144, 152, 116, 179, 62, 97, 197, 147, 138, 142, 21, 237, 28>>,
       <<163, 126, 120, 61, 123, 114, 51, 192, 131, 212, 246, 41, 38, 199, 162, 95, 35, 141, 3, 22>>,
       <<188, 156, 210, 133, 97, 4, 44, 131, 242, 25, 50, 77, 60, 96, 114, 86, 192, 50, 114, 174>>,
       <<164, 251, 150, 12, 11, 192, 110, 30, 171, 184, 4, 229, 179, 151, 205, 196, 180, 85, 150, 250>>,
       <<27, 60, 137, 246, 94, 108, 158, 136, 48, 18, 5, 40, 35, 68, 63, 4, 139, 67, 50, 219>>,
       <<22, 55, 64, 152, 9, 166, 121, 220, 105, 130, 7, 49, 12, 140, 127, 192, 114, 144, 217, 229>> >>

\* digest sizes of MD5, SHA-1, SHA-256 and SHA-512
DigestSizes == {16, 20, 32, 64}

\* 4-byte windows: every sign bit and carry pattern of the first byte, with
\* low bytes that are all clear, all set or mixed
Windows ==
    { <<b>> \o low : b \in {0, 127, 128, 255},
                     low \in {<<0, 0, 0>>, <<255, 255, 255>>, <<1, 2, 3>>, <<255, 0, 128>>} }

\* a digest of n bytes whose last byte is last, holding window w at offset
\* off (where it fits), every other byte derived from its index
Digest(n, last, off, w) ==
    [i \in 1..n |->
        IF i = n THEN last
        ELSE IF i - 1 \in off..(off + 3) THEN w[i - off]
        ELSE (37 * i + 11) % 256]

DigestSamples ==
    { Digest(n, 16 * h + off, off, w) :
        n \in DigestSizes, h \in {0, 15}, off \in 0..15, w \in Windows }
    \cup { RFC_HS[i] : i \in 1..Len(RFC_HS) }

InitDT ==
    /\ now = <<>>
    /\ py3 = TRUE
    /\ call \in [op : {"_Truncate"}, HS : DigestSamples, Digit : 1..MaxDigit]
    /\ snum = NoResult
    /\ ret = NoResult
    /\ hotp = <<>>
    /\ first = NoFirst
    /\ ncalls = 0
    /\ hmacs = <<>>
    /\ NoMain

CallTruncate ==
    /\ ncalls = 0
    /\ call.op = "_Truncate"
    /\ snum' = _DT(call.HS)
    /\ ret' = _Truncate(call.HS, call.Digit)
    /\ ncalls' = 1
    /\ UNCHANGED <<now, py3, call, hotp, first, hmacs, mainvars>>

NextDT == CallTruncate

SpecDT == InitDT /\ [][NextDT]_vars

----------------------------------------------------------------------------
(* SpecHOTP: a client makes library calls, HOTP with any arguments and     *)
(* TOTP as main calls it, in any order.                                    *)

Keys == {K20, KB32}

Digits == {6, 8}

\* 2^64 - 1, the largest counter struct.pack('>Q', ...) accepts
MaxQ == [neg |-> FALSE, mag |-> <<255, 255, 255, 255, 255, 255, 255, 255>>]

\* counters in and out of the range of an unsigned 64-bit integer
Counters ==
    { PyInt(c) : c \in 0..MaxCounter }
    \cup { MaxQ, PyInt(-1), [neg |-> FALSE, mag |-> <<1, 0, 0, 0, 0, 0, 0, 0, 0>>] }

\* the arguments of the HOTP calls: every counter and hash mode with the
\* default digit count, and both secrets and digit counts on a digest that
\* truncates (SHA-1) and one that does not (MD5)
HOTPInputs ==
    [K : {K20}, C : Counters, Digit : {6}, Mode : Modes]
    \cup [K : Keys, C : {PyInt(0)}, Digit : Digits, Mode : {"sha1", "md5"}]

InitLib ==
    /\ py3 \in BOOLEAN
    /\ call = NoCall
    /\ snum = NoResult
    /\ ret = NoResult
    /\ hotp = <<>>
    /\ first = NoFirst
    /\ ncalls = 0
    /\ hmacs = <<>>
    /\ NoMain

InitHOTP ==
    /\ now = Mag(29)
    /\ InitLib

CallHOTP ==
    /\ ncalls < MaxCalls
    /\ \E a \in HOTPInputs :
         Record([op |-> "HOTP", K |-> a.K, C |-> a.C, Digit |-> a.Digit,
                 Mode |-> a.Mode],
                HOTP(a.K, a.C, a.Digit, a.Mode), <<>>)
    /\ UNCHANGED <<now, py3, snum, mainvars>>

\* TOTP(secret), as main calls it: X = 30, Digit = 6, Mode = hashlib.sha1
CallTOTPDefault ==
    /\ ncalls < MaxCalls
    /\ \E K \in Keys :
         LET r == TOTP(K, 30, 6, "sha1")
         IN  Record([op |-> "TOTP", K |-> K, X |-> 30, Digit |-> 6,
                     Mode |-> "sha1", t |-> now], r.ret, r.hotp)
    /\ UNCHANGED <<now, py3, snum, mainvars>>

NextHOTP == CallHOTP \/ CallTOTPDefault

SpecHOTP == InitHOTP /\ [][NextHOTP]_vars

----------------------------------------------------------------------------
(* SpecTOTP: a client calls TOTP with any arguments while time passes.     *)

\* 30 * 2^50 - 2 and 30 * 2^50 - 1: the last two seconds of a 30-second
\* time step whose quotients lie where doubles are 1/8 apart
BigT1 == <<119, 255, 255, 255, 255, 255, 254>>

BigT2 == <<119, 255, 255, 255, 255, 255, 255>>

LibTimes == {Mag(28), Mag(29), Mag(30), BigT1, BigT2}

Steps == {7, 30}

\* the arguments of the TOTP calls
TOTPInputs == [K : {K20}, X : Steps, Digit : Digits, Mode : {"sha1", "sha512"}]

InitTOTP ==
    /\ now \in LibTimes
    /\ InitLib

CallTOTP ==
    /\ ncalls < MaxCalls
    /\ \E a \in TOTPInputs :
         LET r == TOTP(a.K, a.X, a.Digit, a.Mode)
         IN  Record([op |-> "TOTP", K |-> a.K, X |-> a.X, Digit |-> a.Digit,
                     Mode |-> a.Mode, t |-> now], r.ret, r.hotp)
    /\ UNCHANGED <<now, py3, snum, mainvars>>

\* time passes between calls
Tick ==
    /\ \E t \in LibTimes :
         /\ MagLess(now, t)
         /\ now' = t
    /\ UNCHANGED <<py3, libvars, mainvars>>

NextTOTP == CallTOTP \/ Tick

SpecTOTP == InitTOTP /\ [][NextTOTP]_vars

----------------------------------------------------------------------------
(* Text and bytes.  A Python string is a record of its type and its code   *)
(* points (unicode) or bytes (bytes).                                      *)

Bytes(v) == [type |-> "bytes", val |-> v]

Text(v) == [type |-> "unicode", val |-> v]

MaxOf(S) == CHOOSE x \in S : \A y \in S : x >= y

RECURSIVE Concat(_)
Concat(ss) == IF ss = <<>> THEN <<>> ELSE Head(ss) \o Concat(Tail(ss))

\* an element of sys.argv: Python 3 decodes the bytes of the command line,
\* a byte that is no UTF-8 becoming a lone surrogate; Python 2 keeps the
\* bytes (the arguments of the model hold no multi-byte sequence)
argv_str(b) ==
    IF py3
    THEN Text([i \in 1..Len(b) |-> IF b[i] < 128 THEN b[i] ELSE 56320 + b[i]])
    ELSE Bytes(b)

\* the UTF-8 encoding of one code point; Python 3 refuses surrogates
utf8_char(c) ==
    IF c < 128 THEN Ok(<<c>>)
    ELSE IF c < 2048 THEN Ok(<<192 + (c \div 64), 128 + (c % 64)>>)
    ELSE IF py3 /\ c \in 55296..57343 THEN Raise("UnicodeEncodeError")
    ELSE IF c < 65536
         THEN Ok(<<224 + (c \div 4096), 128 + ((c \div 64) % 64), 128 + (c % 64)>>)
    ELSE Ok(<<240 + (c \div 262144), 128 + ((c \div 4096) % 64),
              128 + ((c \div 64) % 64), 128 + (c % 64)>>)

\* s.encode('utf-8') of code points
utf8_encode(v) ==
    IF \E i \in 1..Len(v) : ~utf8_char(v[i]).ok
    THEN Raise("UnicodeEncodeError")
    ELSE Ok(Concat([i \in 1..Len(v) |-> utf8_char(v[i]).val]))

\* s.decode('utf-8') of bytes (the file contents of the model hold no
\* multi-byte sequence: a byte of 128 or more in them is no UTF-8)
utf8_decode(b) ==
    IF \A i \in 1..Len(b) : b[i] < 128
    THEN Ok(Text(b))
    ELSE Raise("UnicodeDecodeError")

\* the white space unicode.strip() removes, among the ASCII code points
Whitespace == {9, 10, 11, 12, 13, 28, 29, 30, 31, 32}

strip(v) ==
    LET keep == { i \in 1..Len(v) : v[i] \notin Whitespace }
    IN  IF keep = {} THEN <<>> ELSE SubSeq(v, MinOf(keep), MaxOf(keep))

\* unicode.upper(), on ASCII code points
upper(v) == [i \in 1..Len(v) |-> IF v[i] \in 97..122 THEN v[i] - 32 ELSE v[i]]

\* the value of a character of the base32 alphabet A-Z2-7, -1 for any other
b32rev(c) ==
    IF c \in 65..90 THEN c - 65
    ELSE IF c \in 50..55 THEN c - 24
    ELSE -1

\* byte j (0..4) of the 5 bytes that the 8 values q[1..8] of 5 bits encode
b32byte(q, j) ==
    CASE j = 0 -> q[1] * 8 + q[2] \div 4
      [] j = 1 -> (q[2] % 4) * 64 + q[3] * 2 + q[4] \div 16
      [] j = 2 -> (q[4] % 16) * 16 + q[5] \div 2
      [] j = 3 -> (q[5] % 2) * 128 + q[6] * 4 + q[7] \div 8
      [] j = 4 -> (q[7] % 8) * 32 + q[8]

\* base64.b32decode(s) of code points s: the bytes, or the exception
\* (binascii.Error on Python 3, TypeError on Python 2)
b32decode(s) ==
    LET err      == IF py3 THEN "binascii.Error" ELSE "TypeError"
        l        == Len(s)
        data     == { i \in 1..l : s[i] # 61 }
        body     == IF data = {} THEN <<>> ELSE SubSeq(s, 1, MaxOf(data))
        padchars == l - Len(body)
        val      == [i \in 1..l |-> IF i <= Len(body) THEN b32rev(body[i]) ELSE 0]
        quanta   == [g \in 1..(l \div 8) |-> SubSeq(val, (8 * g) - 7, 8 * g)]
        decoded  == [k \in 1..(5 * (l \div 8)) |->
                        b32byte(quanta[((k - 1) \div 5) + 1], (k - 1) % 5)]
        leftover == (43 - (5 * padchars)) \div 8
    IN  IF py3 /\ \E i \in 1..l : s[i] >= 128 THEN Raise("ValueError")
        ELSE IF l % 8 # 0 THEN Raise(err)
        ELSE IF \E i \in 1..Len(body) : b32rev(body[i]) < 0 THEN Raise(err)
        ELSE IF padchars \notin {0, 1, 3, 4, 6} THEN Raise(err)
        ELSE IF padchars = 0 \/ decoded = <<>> THEN Ok(decoded)
        ELSE Ok(SubSeq(decoded, 1, Len(decoded) - 5 + leftover))

\* '%o' % n
RECURSIVE Oct(_)
Oct(n) ==
    IF n < 8 THEN DigitChar[n + 1] ELSE Oct(n \div 8) \o DigitChar[(n % 8) + 1]

\* s * n
RECURSIVE Repeat(_, _)
Repeat(s, n) == IF n <= 0 THEN "" ELSE s \o Repeat(s, n - 1)

----------------------------------------------------------------------------
(* Spec: main, one step at a time.  The command line, the interpreter, the *)
(* file at secret_path and the clock are the environment's; the terminal   *)
(* may raise KeyboardInterrupt wherever main is.                           *)

\* the seconds the loop is followed for, from its first poll
MaxElapsed == 32

\* the clock of the tests of main, the last second of a 30-second step
TestTime == 1111111109

\* the last second of time step 37079356: K20 has the code 186519 in this
\* step and in the next
CollisionTime == (30 * 37079356) + 29

\* the first, the fifteenth and the last second of the step of the tests,
\* and the last second before two steps with one code
StartTimes ==
    {Mag(TestTime - 29), Mag(TestTime - 15), Mag(TestTime), Mag(CollisionTime)}

\* how long time.sleep(1) takes: a second, or longer in a stopped process
Delays == {1, 30}

\* the secret arguments of the command line
Argv == {K20, KB32, KFF}

\* what the file at secret_path holds
Contents == {K20, KB32, KB32ws, KPad, KFF}

\* S_IFREG
S_IFREG == 32768

\* the st_mode of a regular file with permissions 0600, 0400, 0640, 0604
\* and 0644
FileModes == {S_IFREG + 384, S_IFREG + 256, S_IFREG + 416, S_IFREG + 388, S_IFREG + 420}

\* the directory main runs in, and the user's home
Cwd == <<47, 97, 98, 115>>

Home == <<47, 104, 111, 109, 101, 47, 117, 115, 101, 114>>

\* expanduser(path), for '~' and '~/...'
expanduser(path) ==
    IF path.val # <<>> /\ path.val[1] = 126 /\ (Len(path.val) = 1 \/ path.val[2] = 47)
    THEN [path EXCEPT !.val = Home \o Tail(path.val)]
    ELSE path

\* realpath(path), where no component is a link
realpath(path) ==
    IF path.val # <<>> /\ path.val[1] = 47
    THEN path
    ELSE [path EXCEPT !.val = Cwd \o <<47>> \o path.val]

secret_path == realpath(expanduser(options.secret))

_get_chmod_bits(st_mode) == BitAnd(st_mode, 511)

\* the permission check looking at the bits of "other" only
Unprotected_other(mode) == BitAnd(mode, 7) # 0

\* mode & 0o077 != 0
Unprotected(mode) == BitAnd(mode, 63) # 0

\* the warning main writes for a file that is accessible by others
PermissionsMsg(mode, path) ==
    <<"@@@@@@@@@@@@@@@@@@@@@@@@@@@@@@@@@@@@@@@@@@@@@@@@@@@@@@@@@@@\n"
      \o "@          WARNING: UNPROTECTED SECRET 2FA FILE!          @\n"
      \o "@@@@@@@@@@@@@@@@@@@@@@@@@@@@@@@@@@@@@@@@@@@@@@@@@@@@@@@@@@@\n"
      \o "Permissions 0" \o Oct(mode) \o " for '",
      path.val,
      "' are too open.\n"
      \o "It is required that your secret key files are NOT accessible by others.\n"
      \o "This secret key will be ignored.\n">>

\* the warning _graceful_encode writes before sys.exit(1); <<96>> is the
\* character ` that a string of this module cannot hold
EncodeMsg ==
    <<"Python 3 does not support arbitrary binary input supplied as command-line args.\n"
      \o "If your key contains raw binary, write it to a file, protect its permissions\n"
      \o "with, e.g., ",
      <<96>>, "chmod 600 secret.2fa", <<96>>,
      ", and then pass the file path as an argument\n"
      \o "to pyoath.\n">>

\* _graceful_encode(s): the bytestring, or UnicodeEncodeError where it
\* writes EncodeMsg and exits
_graceful_encode(s) ==
    IF s.type = "unicode"
    THEN LET e == utf8_encode(s.val)
         IN  IF e.ok THEN Ok(Bytes(e.val)) ELSE e
    ELSE IF py3
         THEN Ok(s)                         \* AttributeError: already bytes
    ELSE IF \A i \in 1..Len(s.val) : s.val[i] < 128
         THEN Ok(Bytes(utf8_encode(s.val).val))
    ELSE Ok(s)                              \* UnicodeDecodeError: already bytes

\* base64.b32decode(secret.decode('utf-8').strip().upper())
GoogleDecode(s) ==
    LET text == utf8_decode(s.val)
    IN  IF ~text.ok
        THEN text
        ELSE LET contents == upper(strip(text.val.val))
                 decoded  == b32decode(contents)
             IN  IF decoded.ok THEN Ok(Bytes(decoded.val)) ELSE decoded

\* the table head main writes when the loop starts
LoopBanner ==
    "\nAuthenticator Started!\n"
    \o ":----------------------------:--------:\n"
    \o ":       Code Wait Time       :  Code  :\n"
    \o ":----------------------------:--------:\n"

\* a comparison that never finds the code unchanged
SameCode_never(this, last) == FALSE

\* this_otp == last_otp
SameCode(this, last) == this = last

\* '+' * counter + ': %s :\n' % this_otp
LoopLine(n, otp) == Repeat("+", n) \o ": " \o otp \o " :\n"

\* a try statement that ends before time.sleep(1)
InTry_nosleep(p) == p \in {"loop_totp", "loop_write", "loop_flush"}

\* main is inside the try statement of the loop
InTry(p) == p \in {"loop_totp", "loop_write", "loop_flush", "loop_sleep"}

Init ==
    /\ py3 \in BOOLEAN
    /\ now \in StartTimes
    /\ call = NoCall
    /\ snum = NoResult
    /\ ret = NoResult
    /\ hotp = <<>>
    /\ first = NoFirst
    /\ ncalls = 0
    /\ hmacs = <<>>
    /\ pc = "start"
    /\ \E arg \in Argv, google \in BOOLEAN, loop \in BOOLEAN :
         options = [secret |-> argv_str(arg), google |-> google, loop |-> loop]
    /\ fs \in {[isfile |-> FALSE]}
              \cup [isfile : {TRUE}, st_mode : FileModes, contents : Contents]
    /\ secret = None
    /\ last_otp = None
    /\ this_otp = None
    /\ counter = 0
    /\ stdout = <<>>
    /\ stderr = <<>>
    /\ flushed = 0
    /\ status = NoResult
    /\ opened = FALSE
    /\ interrupt = "none"

\* lines 249-253: secret = options.secret; isfile(secret_path)
Start ==
    /\ pc = "start"
    /\ secret' = options.secret
    /\ pc' = IF fs.isfile THEN "chmod" ELSE "encode"
    /\ UNCHANGED <<now, py3, libvars, options, fs, last_otp, this_otp, counter,
                   stdout, stderr, flushed, status, opened, interrupt>>

\* lines 256-267: the permission check
CheckPermissions ==
    /\ pc = "chmod"
    /\ LET mode == _get_chmod_bits(fs.st_mode)
       IN  IF Unprotected(mode)
           THEN /\ stderr' = Append(stderr, PermissionsMsg(mode, secret_path))
                /\ status' = Ok(2)
                /\ pc' = "done"
           ELSE /\ pc' = "open"
                /\ UNCHANGED <<stderr, status>>
    /\ UNCHANGED <<now, py3, libvars, options, fs, secret, last_otp, this_otp,
                   counter, stdout, flushed, opened, interrupt>>

\* lines 269-273: the file is opened and read, and decoded with --google
ReadSecret ==
    /\ pc = "open"
    /\ opened' = TRUE
    /\ LET read    == Bytes(fs.contents)
           decoded == IF options.google THEN GoogleDecode(read) ELSE Ok(read)
       IN  IF decoded.ok
           THEN /\ secret' = decoded.val
                /\ pc' = "encode"
                /\ UNCHANGED status
           ELSE /\ secret' = read
                /\ status' = decoded
                /\ pc' = "done"
    /\ UNCHANGED <<now, py3, libvars, options, fs, last_otp, this_otp, counter,
                   stdout, stderr, flushed, interrupt>>

\* line 275: secret = _graceful_encode(secret)
Encode ==
    /\ pc = "encode"
    /\ LET e == _graceful_encode(secret)
       IN  IF e.ok
           THEN /\ secret' = e.val
                /\ pc' = IF options.loop THEN "banner" ELSE "totp"
                /\ UNCHANGED <<stderr, status>>
           ELSE /\ stderr' = Append(stderr, EncodeMsg)
                /\ status' = Raise("SystemExit(1)")
                /\ pc' = "done"
                /\ UNCHANGED secret
    /\ UNCHANGED <<now, py3, libvars, options, fs, last_otp, this_otp, counter,
                   stdout, flushed, opened, interrupt>>

\* TOTP(secret), and where main goes when it returns
CallTOTPMain(next) ==
    LET r == TOTP(secret.val, 30, 6, "sha1")
    IN  /\ Record([op |-> "TOTP", K |-> secret.val, X |-> 30, Digit |-> 6,
                   Mode |-> "sha1", t |-> now], r.ret, r.hotp)
        /\ IF r.ret.ok
           THEN /\ this_otp' = Some(r.ret.val)
                /\ pc' = next
                /\ UNCHANGED status
           ELSE /\ status' = r.ret
                /\ pc' = "done"
                /\ UNCHANGED this_otp

\* line 301: otp = TOTP(secret)
Once ==
    /\ pc = "totp"
    /\ CallTOTPMain("print")
    /\ UNCHANGED <<now, py3, snum, options, fs, secret, last_otp, counter,
                   stdout, stderr, flushed, opened, interrupt>>

\* lines 302-303: the code is written and main returns 0
PrintOtp ==
    /\ pc = "print"
    /\ stdout' = Append(stdout, this_otp[1] \o "\n")
    /\ status' = Ok(0)
    /\ pc' = "done"
    /\ UNCHANGED <<now, py3, libvars, options, fs, secret, last_otp, this_otp,
                   counter, stderr, flushed, opened, interrupt>>

\* lines 278-285: the loop starts
StartLoop ==
    /\ pc = "banner"
    /\ last_otp' = None
    /\ counter' = 30
    /\ stdout' = Append(stdout, LoopBanner)
    /\ pc' = "loop_totp"
    /\ UNCHANGED <<now, py3, libvars, options, fs, secret, this_otp, stderr,
                   flushed, status, opened, interrupt>>

\* lines 288-289: this_otp = TOTP(secret); counter -= 1
LoopTOTP ==
    /\ pc = "loop_totp"
    /\ CallTOTPMain("loop_write")
    /\ counter' = IF pc' = "loop_write" THEN counter - 1 ELSE counter
    /\ UNCHANGED <<now, py3, snum, options, fs, secret, last_otp, stdout,
                   stderr, flushed, opened, interrupt>>

\* lines 290-295: a '.' for the code written last, a line for a new code
LoopWrite ==
    /\ pc = "loop_write"
    /\ IF SameCode(this_otp, last_otp)
       THEN /\ stdout' = Append(stdout, ".")
            /\ UNCHANGED <<last_otp, counter>>
       ELSE /\ last_otp' = this_otp
            /\ stdout' = Append(stdout, LoopLine(counter, this_otp[1]))
            /\ counter' = 30
    /\ pc' = "loop_flush"
    /\ UNCHANGED <<now, py3, libvars, options, fs, secret, this_otp, stderr,
                   flushed, status, opened, interrupt>>

\* line 296: sys.stdout.flush()
LoopFlush ==
    /\ pc = "loop_flush"
    /\ flushed' = Len(stdout)
    /\ pc' = "loop_sleep"
    /\ UNCHANGED <<now, py3, libvars, options, fs, secret, last_otp, this_otp,
                   counter, stdout, stderr, status, opened, interrupt>>

\* line 297: time.sleep(1), and the loop goes round
LoopSleep ==
    /\ pc = "loop_sleep"
    /\ \E d \in Delays :
         /\ now' = MagAdd(now, d)
         /\ ~MagLess(MagAdd(first.call.t, MaxElapsed), now')
    /\ pc' = "loop_totp"
    /\ UNCHANGED <<py3, libvars, options, fs, secret, last_otp, this_otp,
                   counter, stdout, stderr, flushed, status, opened, interrupt>>

\* KeyboardInterrupt is raised where main is: inside the try statement of
\* the loop main returns 0 (lines 298-299), anywhere else the exception
\* leaves main
KeyboardInterrupt ==
    /\ pc # "done"
    /\ interrupt' = pc
    /\ status' = IF InTry(pc) THEN Ok(0) ELSE Raise("KeyboardInterrupt")
    /\ pc' = "done"
    /\ UNCHANGED <<now, py3, libvars, options, fs, secret, last_otp, this_otp,
                   counter, stdout, stderr, flushed, opened>>

Next ==
    \/ Start
    \/ CheckPermissions
    \/ ReadSecret
    \/ Encode
    \/ Once
    \/ PrintOtp
    \/ StartLoop
    \/ LoopTOTP
    \/ LoopWrite
    \/ LoopFlush
    \/ LoopSleep
    \/ KeyboardInterrupt

Spec == Init /\ [][Next]_vars

----------------------------------------------------------------------------
(* The claims.                                                             *)

InRangeQ(C) == ~C.neg /\ Len(C.mag) <= 8

\* C1: for every secret, every counter in 0..2^64-1, every positive digit
\* count D and every hash mode (SHA-1, SHA-256, SHA-512, MD5), HOTP returns a
\* string of exactly D characters.
C1_HOTPWidth ==
    (call.op = "HOTP" /\ InRangeQ(call.C))
        => (ret.ok /\ Len(ret.val) = call.Digit)

\* 2^31
TwoPow31 == <<128, 0, 0, 0>>

\* the offset _DT reads from the digest of the call
OffsetOf(HS) == HS[Len(HS)] % 16

\* C2: whenever _DT returns a value for a digest, the value is an integer in
\* 0 .. 2^31 - 1: bit 31 of the 4-byte window is always clear.
C2_TopBitClear ==
    (ncalls = 1 /\ call.op = "_Truncate" /\ snum.ok) => MagLess(snum.val, TwoPow31)

\* _DT returned the value of a window whose top bit was set
C2_Witness ==
    /\ ncalls = 1
    /\ call.op = "_Truncate"
    /\ call.HS[OffsetOf(call.HS) + 1] = 255
    /\ snum = Ok(<<127, 255, 255, 255>>)

\* the values test_DT expects of _DT for the RFC 4226 digests
RFC_DT ==
    <<1284755224, 1094287082, 137359152, 1726969429, 1640338314,
      868254676, 1918287922, 82162583, 673399871, 645520489>>

\* the codes test_HOTP expects for the RFC 4226 digests
RFC_HOTP ==
    <<"755224", "287082", "359152", "969429", "338314",
      "254676", "287922", "162583", "399871", "520489">>

\* C3: for the ten RFC 4226 HMAC-SHA-1 digests (counters 0..9), _DT returns
\* the RFC's truncated values and the 6-digit reduction yields the RFC's
\* codes.
C3_RFCVectors ==
    \A i \in 1..Len(RFC_HS) :
        (ncalls = 1 /\ call.op = "_Truncate" /\ call.HS = RFC_HS[i])
            => /\ snum = Ok(Mag(RFC_DT[i]))
               /\ call.Digit = 6 => ret = Ok(RFC_HOTP[i])

\* the digest of counter 9 was truncated to 6 digits
C3_Witness ==
    /\ ncalls = 1
    /\ call = [op |-> "_Truncate", HS |-> RFC_HS[10], Digit |-> 6]
    /\ ret = Ok("520489")

FloorDiv(t, X) == [neg |-> FALSE, mag |-> MagDivMod(t, X).q]

\* C5: for every non-negative integer time t the clock returns and every
\* positive step X, TOTP(K, X, D, M) calls HOTP exactly once, with
\* (K, floor(t / X), D, M), and returns HOTP's result unchanged.
C5_TOTPDelegates ==
    call.op = "TOTP"
        => /\ hotp = <<[K |-> call.K, C |-> FloorDiv(call.t, call.X),
                        Digit |-> call.Digit, Mode |-> call.Mode]>>
           /\ ret = HOTP(call.K, FloorDiv(call.t, call.X), call.Digit, call.Mode)

SameTOTPArgs(c, d) ==
    /\ c.op = "TOTP"
    /\ d.op = "TOTP"
    /\ c.K = d.K
    /\ c.X = d.X
    /\ c.Digit = d.Digit
    /\ c.Mode = d.Mode

\* C6: TOTP window stability: for any two times t1, t2 with
\* floor(t1 / X) = floor(t2 / X), TOTP with the clock at t1 and TOTP with the
\* clock at t2 return identical codes.
C6_WindowStable ==
    (/\ SameTOTPArgs(first.call, call)
     /\ FloorDiv(first.call.t, call.X) = FloorDiv(call.t, call.X))
        => ret = first.ret

\* the file at secret_path is accessible by group or other
UnprotectedFile == fs.isfile /\ fs.st_mode % 64 # 0

Supplied == IF fs.isfile THEN fs.contents ELSE options.secret.val

\* C8: whenever --google is selected, the secret handed to TOTP is the
\* base32 decoding of the upper-cased, whitespace-stripped supplied secret,
\* both for a secret read from a file and for a secret supplied as the
\* command-line argument.
C8_GoogleDecodes ==
    (options.google /\ call.op = "TOTP")
        => LET decoded == b32decode(upper(strip(Supplied)))
           IN  decoded.ok /\ call.K = decoded.val

\* a write of the loop that is a code line
IsCodeLine(w) == w \notin {".", LoopBanner}

\* the code a code line shows
CodeOf(w) == SubSeq(w, Len(w) - 8, Len(w) - 3)

\* the code lines written so far
CodeLines == SelectSeq(stdout, IsCodeLine)

\* the code written last, None before the first code line
LastWritten ==
    IF CodeLines = <<>> THEN None ELSE Some(CodeOf(CodeLines[Len(CodeLines)]))

\* main is in the loop, or has left it
LoopEntered == options.loop /\ stdout # <<>>

\* TOTP was called and its code is not yet written
WritePending == pc = "loop_write" \/ (pc = "done" /\ interrupt = "loop_write")

C9_Writes ==
    LoopEntered
        => /\ stdout[1] = LoopBanner
           /\ ncalls = Len(stdout) - (IF WritePending THEN 0 ELSE 1)
           /\ Len(stdout) >= 2 => IsCodeLine(stdout[2])
           /\ \A i \in 2..Len(stdout) :
                \/ stdout[i] = "."
                \/ \E n \in 0..29 : stdout[i] = LoopLine(n, CodeOf(stdout[i]))
           /\ \A i \in 1..(Len(CodeLines) - 1) :
                CodeOf(CodeLines[i]) # CodeOf(CodeLines[i + 1])

C9_WriteStep ==
    (pc = "loop_write" /\ pc' = "loop_flush")
        => IF Some(ret.val) = LastWritten
           THEN stdout' = Append(stdout, ".")
           ELSE \E n \in 0..29 : stdout' = Append(stdout, LoopLine(n, ret.val))

\* C9: in loop mode every iteration calls TOTP exactly once and then writes
\* exactly one of: a code line ('+'s, ': <code> :' and a newline) when the
\* code differs from the last code written (always on the first iteration),
\* or a single '.' when it equals the last code written; two consecutive
\* code lines never show the same code.
C9_LoopIteration == []C9_Writes /\ [][C9_WriteStep]_vars

\* the loop wrote a code line, dots for the same code, and a line for the
\* next code
C9_Witness ==
    /\ LoopEntered
    /\ Len(CodeLines) >= 2
    /\ \E i \in 3..(Len(stdout) - 1) :
         stdout[i] = "." /\ IsCodeLine(stdout[i + 1])

\* the points of a loop iteration: the TOTP call, the write, the flush and
\* the sleep
LoopPoints == {"loop_totp", "loop_write", "loop_flush", "loop_sleep"}

\* C10: in loop mode a KeyboardInterrupt raised at any point of a loop
\* iteration (the TOTP call, the write or flush, the sleep) makes main return
\* 0, and the loop is left in no other way.
C10_InterruptReturns0 ==
    /\ interrupt \in LoopPoints => (pc = "done" /\ status = Ok(0))
    /\ (LoopEntered /\ pc = "done") => interrupt \in LoopPoints

\* main was interrupted in time.sleep(1) after it wrote a code
C10_Witness ==
    /\ pc = "done"
    /\ interrupt = "loop_sleep"
    /\ status = Ok(0)
    /\ Len(stdout) >= 2
    /\ flushed = Len(stdout)

\* the reference truncation of a digest: the top bit of P[0] is cleared and
\* P is read as a big-endian number
RefDT(HS) ==
    LET offset == HS[Len(HS)] % 16
        P      == [i \in 1..4 |-> HS[offset + i]]
    IN  ((P[1] % 128) * 16777216) + (P[2] * 65536) + (P[3] * 256) + P[4]

\* C11: for every digest of at least 20 bytes, _DT returns the number of the
\* reference: offset = last byte AND 0x0F, P = the 4 bytes at offset ..
\* offset + 3, result = (P[0] AND 0x7F) * 2^24 + P[1] * 2^16 + P[2] * 2^8 +
\* P[3]; masking after the conversion equals masking P[0] before it.
C11_ReferenceDT ==
    (ncalls = 1 /\ call.op = "_Truncate" /\ Len(call.HS) >= 20)
        => snum = Ok(Mag(RefDT(call.HS)))

\* a 20-byte digest with the window 80 ff 00 80 at the largest offset: only
\* the top bit of the first byte is cleared
C11_Witness ==
    /\ ncalls = 1
    /\ call.op = "_Truncate"
    /\ Len(call.HS) = 20
    /\ OffsetOf(call.HS) = 15
    /\ SubSeq(call.HS, 16, 19) = <<128, 255, 0, 128>>
    /\ snum = Ok(<<255, 0, 128>>)

\* 10^k for k in 0..9
Pow10 == <<1, 10, 100, 1000, 10000, 100000, 1000000, 10000000, 100000000, 1000000000>>

\* S mod 10^D for S below 2^31, which is below 10^10
RefMod(S, D) == IF D >= 10 THEN S ELSE S % Pow10[D + 1]

\* the decimal digit of V that stands k places from the right
RefDigit(V, k) == IF k >= 10 THEN 0 ELSE (V \div Pow10[k + 1]) % 10

\* V in decimal, left-padded with '0' to D characters, character by character
RefCode(V, D) == [i \in 1..D |-> DigitChar[RefDigit(V, D - i) + 1]]

\* C12: for every truncated value S in 0 .. 2^31 - 1 and every positive digit
\* count D, _Truncate returns a string of exactly D decimal digits whose
\* value is S mod 10^D: the decimal rendering of S mod 10^D left-padded with
\* '0' (for D >= 10 the value is S itself).
C12_Reducer ==
    (ncalls = 1 /\ call.op = "_Truncate" /\ snum.ok)
        => /\ ret.ok
           /\ Len(ret.val) = call.Digit
           /\ \A i \in 1..call.Digit :
                SubSeq(ret.val, i, i)
                    = RefCode(RefMod(MagNat(snum.val), call.Digit), call.Digit)[i]

\* 66051 was reduced to 3 digits: 66051 mod 1000 = 51, padded to "051"
C12_Witness ==
    /\ ncalls = 1
    /\ call.op = "_Truncate"
    /\ call.Digit = 3
    /\ snum = Ok(Mag(66051))
    /\ ret = Ok("051")

\* the digest ends before the 4-byte window at its offset does
WindowOverruns(HS) == Len(HS) < OffsetOf(HS) + 4

\* C13: whenever the digest is shorter than offset + 4 bytes (a 16-byte MD5
\* digest whose last byte has low nibble 13, 14 or 15), truncation fails
\* with an error and returns no value: neither _DT nor _Truncate returns a
\* number or code computed from a shortened window.
C13_ShortDigestFails ==
    (ncalls = 1 /\ call.op = "_Truncate" /\ WindowOverruns(call.HS))
        => /\ snum = Raise("struct.error")
           /\ ret = Raise("struct.error")

\* a 16-byte digest with offset 13, where 3 bytes are left, was refused
C13_Witness ==
    /\ ncalls = 1
    /\ call.op = "_Truncate"
    /\ Len(call.HS) = 16
    /\ OffsetOf(call.HS) = 13
    /\ ~snum.ok
    /\ ~ret.ok

\* C14: for every digest of 20 bytes or more (SHA-1, SHA-256, SHA-512) and
\* every last byte, the 4-byte window lies inside the digest: the highest
\* index read is offset + 3 <= 18 < length, the largest offset 15 on a
\* 20-byte digest included, so truncation never overruns and always returns
\* a value.
C14_WindowInside ==
    (ncalls = 1 /\ call.op = "_Truncate" /\ Len(call.HS) >= 20)
        => /\ OffsetOf(call.HS) + 3 <= 18
           /\ 18 < Len(call.HS)
           /\ ~WindowOverruns(call.HS)
           /\ snum.ok
           /\ ret.ok

\* a 20-byte digest whose last byte is ff was truncated at offset 15, its
\* window ending at index 18
C14_Witness ==
    /\ ncalls = 1
    /\ call.op = "_Truncate"
    /\ Len(call.HS) = 20
    /\ call.HS[20] = 255
    /\ SubSeq(call.HS, 16, 19) = <<127, 1, 2, 3>>
    /\ snum = Ok(<<127, 1, 2, 3>>)
    /\ ret.ok

\* every poll of the loop so far read the clock one second after the poll
\* before it
OneSecondPolls ==
    /\ ncalls >= 1
    /\ call.op = "TOTP"
    /\ call.t = MagAdd(first.call.t, ncalls - 1)

\* the characters of a code line before ': <code> :' and the newline
ProgressOf(w) == SubSeq(w, 1, Len(w) - 11)

\* the number of '.' written between the code line before write i and
\* write i
DotsBefore(i) ==
    Cardinality({ j \in 2..(i - 1) : \A k \in j..(i - 1) : stdout[k] = "." })

\* C15: in loop mode, when successive polls observe clock values exactly one
\* second apart (30-second step), every code line has a progress column of 29
\* characters: 29 '+' before the first code, and for each later code line the
\* '.' written since the code line before it plus the '+' written on it are
\* 29; the counter is 30 after each code line and is not negative when
\* '+' * counter is evaluated.
C15_ProgressColumn ==
    (LoopEntered /\ OneSecondPolls)
        => /\ \A i \in 2..Len(stdout) :
                IsCodeLine(stdout[i])
                    => /\ DotsBefore(i) + Len(ProgressOf(stdout[i])) = 29
                       /\ \A k \in 1..Len(ProgressOf(stdout[i])) :
                            SubSeq(stdout[i], k, k) = "+"
           /\ Len(stdout) >= 2 => Len(ProgressOf(stdout[2])) = 29
           /\ (pc = "loop_write" /\ this_otp # last_otp) => counter >= 0
           /\ (pc = "loop_flush" /\ IsCodeLine(stdout[Len(stdout)]))
                  => counter = 30

\* C16: HOTP rejects an out-of-range counter: for every integer C with C < 0
\* or C >= 2^64, HOTP(K, C, D, M) fails with an error at the packing step,
\* before any HMAC is computed, and returns no code (never the code of
\* C mod 2^64).
C16_CounterRejected ==
    (call.op = "HOTP" /\ ~InRangeQ(call.C))
        => /\ ret = Raise("struct.error")
           /\ hmacs = <<>>

\* HOTP was called with 2^64 after a call that computed an HMAC
C16_Witness ==
    /\ call.op = "HOTP"
    /\ call.C = [neg |-> FALSE, mag |-> <<1, 0, 0, 0, 0, 0, 0, 0, 0>>]
    /\ ~ret.ok
    /\ hmacs = <<>>
    /\ first.ret.ok
    /\ ncalls >= 2

====
